---- MODULE Spec2Model ----
(***************************************************************************)
(* A model of SmallWorldRand (similarity_search/src/method/                *)
(* small_world_rand.cc): the incremental, possibly multi-threaded          *)
(* construction of the small-world graph, and the k-NN query on it.        *)
(*                                                                         *)
(* Node n is the MSWNode created for data[n]; its payload is the integer   *)
(* Payload(n) and the space is the integer space with distance |a - b|.    *)
(* A priority queue of (distance, node) pairs is kept as a bag of nodes    *)
(* (the distance of an entry is a function of its node and of the query);  *)
(* which of several entries of equal distance is on top of a heap is left  *)
(* open, as std::priority_queue does not fix it.                           *)
(***************************************************************************)
EXTENDS Integers, Sequences, FiniteSets

\* ----------------------------------------------------------------- bounds
MaxN == 4              \* the data sequence has at most MaxN objects
MaxT == 2              \* indexThreadQty_ ranges over 0..MaxT
MaxWork == 8           \* data.size() * indexThreadQty_ is at most MaxWork
MaxQueue == 3          \* a node occurs at most MaxQueue times in one heap

\* ------------------------------------------------------- method parameters
NN_ == 2                    \* "NN"
initIndexAttempts_ == 2     \* "initIndexAttempts"
initSearchAttempts_ == 2    \* "initSearchAttempts"

\* numeric_limits<size_t>::max(), the value of addIndex_ before publication
SizeMax == 2147483647

Nodes == 0 .. (MaxN - 1)
NoNode == -1
Workers == 0 .. (MaxT - 1)
Main == MaxT                \* the thread that runs the constructor
Procs == 0 .. MaxT
NoProc == -1

VARIABLES
  indexThreadQty_,   \* the parameter indexThreadQty
  dataSize,          \* data.size()
  ElList_,           \* the node list, a sequence of nodes
  addIndex_,         \* addIndex_ of every node (SizeMax: not published)
  friends,           \* the friends list of every node
  accessGuard_,      \* the holder of every node's mutex, or NoProc
  th,                \* every thread's position and locals
  qry,               \* the locals of Search(KNNQuery) and its collector
  outcome,           \* how the client's last call ended
  randLog,           \* the entry points rand() has chosen (see Logged)
  resultOf           \* what the traversal for each node found (see Returned)

vars == <<indexThreadQty_, dataSize, ElList_, addIndex_, friends,
          accessGuard_, th, qry, outcome, randLog, resultOf>>

graph == <<ElList_, addIndex_, friends>>
locks == <<accessGuard_>>
params == <<indexThreadQty_, dataSize>>

\* ------------------------------------------------------------ the space
Abs(x) == IF x < 0 THEN -x ELSE x

Payload(n) == 10 * n

Distance(a, b) == Abs(a - b)

IndexTimeDistance(q, n) == Distance(Payload(q), Payload(n))

\* ------------------------------------------------------ priority queues
EmptyBag == [n \in Nodes |-> 0]

RECURSIVE SumOver(_, _)
SumOver(f, S) ==
  IF S = {} THEN 0
  ELSE LET x == CHOOSE y \in S : TRUE IN f[x] + SumOver(f, S \ {x})

BagSize(b) == SumOver(b, Nodes)

Support(b) == {n \in Nodes : b[n] > 0}

BagPush(b, n) == [b EXCEPT ![n] = @ + 1]

BagPop(b, n) == [b EXCEPT ![n] = @ - 1]

\* The entries that may be on top of a min-heap / a max-heap whose key is the
\* distance dist[n] of node n.
MinNodes(b, dist) ==
  {n \in Support(b) : \A m \in Support(b) : dist[n] <= dist[m]}

\* Mutant of MaxNodes: any entry may be on top of the heap.
AnyNodes(b, dist) == Support(b)

MaxNodes(b, dist) ==
  {n \in Support(b) : \A m \in Support(b) : dist[n] >= dist[m]}

\* priority_queue<dist_t>: an ascending sequence, its top is the last entry.
DistPush(s, d) ==
  LET k == Cardinality({j \in 1 .. Len(s) : s[j] <= d})
  IN SubSeq(s, 1, k) \o <<d>> \o SubSeq(s, k + 1, Len(s))

DistTop(s) == s[Len(s)]

DistPop(s) == SubSeq(s, 1, Len(s) - 1)

\* closestDistQueue.push(d); if (closestDistQueue.size() > NN) pop();
ClosestPush(s, d, k) ==
  LET s1 == DistPush(s, d) IN IF Len(s1) > k THEN DistPop(s1) ELSE s1

\* ------------------------------------------------------- thread locals
IdleLocals ==
  [pc |-> "idle", ret |-> "none", i |-> 0, newElement |-> NoNode,
   entryQty |-> 0, visitedBitset |-> {}, attempt |-> 0,
   candidateSet |-> EmptyBag, closestDistQueue |-> <<>>,
   resultSet |-> EmptyBag, currNode |-> NoNode, iter |-> 0]

IdleQuery ==
  [value |-> 0, bitsetSize |-> 0, visitedBitset |-> {}, attempt |-> 0,
   candidateQueue |-> EmptyBag, closestDistQueue |-> <<>>,
   evaluated |-> {}, reported |-> {}, error |-> "none"]

\* ---------------------------------------------------------------- Init
Init ==
  /\ indexThreadQty_ \in 0 .. MaxT
  /\ dataSize \in 0 .. MaxN
  /\ dataSize * indexThreadQty_ <= MaxWork
  /\ ElList_ = <<>>
  /\ addIndex_ = [n \in Nodes |-> SizeMax]
  /\ friends = [n \in Nodes |-> <<>>]
  /\ accessGuard_ = [n \in Nodes |-> NoProc]
  /\ th = [p \in Procs |-> IF p = Main THEN [IdleLocals EXCEPT !.pc = "ctor"]
                           ELSE IdleLocals]
  /\ qry = IdleQuery
  /\ outcome = "none"
  /\ randLog = <<>>
  /\ resultOf = [n \in Nodes |-> {}]

\* ------------------------------------------------------ the constructor
Goto(p, l) == th' = [th EXCEPT ![p] = l]

\* if (data.empty()) return;
CtorEmpty ==
  /\ th[Main].pc = "ctor"
  /\ dataSize = 0
  /\ Goto(Main, [th[Main] EXCEPT !.pc = "ready"])
  /\ UNCHANGED <<params, randLog, resultOf, graph, locks, qry, outcome>>

\* addCriticalSection(new MSWNode(data[0]));
CtorSeed ==
  /\ th[Main].pc = "ctor"
  /\ dataSize > 0
  /\ Goto(Main, [th[Main] EXCEPT !.pc = "acs", !.newElement = 0,
                                 !.ret = "ctor_branch"])
  /\ UNCHANGED <<params, randLog, resultOf, graph, locks, qry, outcome>>

\* if (indexThreadQty_ <= 1): the loop over data[1..] runs in this thread
CtorSequential ==
  /\ th[Main].pc = "ctor_branch"
  /\ indexThreadQty_ <= 1
  /\ Goto(Main, [th[Main] EXCEPT !.pc = "seq_loop", !.i = 1])
  /\ UNCHANGED <<params, randLog, resultOf, graph, locks, qry, outcome>>

\* else: one thread per w < indexThreadQty_ is started on IndexThreadSW
CtorSpawn ==
  /\ th[Main].pc = "ctor_branch"
  /\ indexThreadQty_ > 1
  /\ th' = [p \in Procs |->
              IF p = Main THEN [th[p] EXCEPT !.pc = "join"]
              ELSE IF p < indexThreadQty_
                   THEN [th[p] EXCEPT !.pc = "w_loop", !.i = 1]
                   ELSE th[p]]
  /\ UNCHANGED <<params, randLog, resultOf, graph, locks, qry, outcome>>

\* for (size_t i = 1; i != data.size(); ++i) add(space, new MSWNode(data[i]));
SeqLoop ==
  /\ th[Main].pc = "seq_loop"
  /\ IF th[Main].i # dataSize
     THEN Goto(Main, [th[Main] EXCEPT !.pc = "add", !.newElement = th[Main].i,
                                      !.ret = "seq_loop"])
     ELSE Goto(Main, [th[Main] EXCEPT !.pc = "ready"])
  /\ UNCHANGED <<params, randLog, resultOf, graph, locks, qry, outcome>>

\* Mutant of Join: the constructor returns without joining the threads.
JoinNoWait ==
  /\ th[Main].pc = "join"
  /\ Goto(Main, [th[Main] EXCEPT !.pc = "ready"])
  /\ UNCHANGED <<params, randLog, resultOf, graph, locks, qry, outcome>>

\* threads[i].join() for every thread
Join ==
  /\ th[Main].pc = "join"
  /\ \A p \in Workers : p < indexThreadQty_ => th[p].pc = "w_done"
  /\ Goto(Main, [th[Main] EXCEPT !.pc = "ready"])
  /\ UNCHANGED <<params, randLog, resultOf, graph, locks, qry, outcome>>

\* ------------------------------------------------------- IndexThreadSW
\* Mutant of IsMine: the test of the modulo partition is missing.
IsMineAll(p, i) == TRUE

\* if (prm.index_every_ == i % prm.out_of_)
IsMine(p, i) == p = i % indexThreadQty_

\* The first index from i on that the loop of worker p does not skip.
NextMine(p, i) ==
  CHOOSE j \in i .. dataSize :
    /\ j = dataSize \/ IsMine(p, j)
    /\ \A k \in i .. (j - 1) : ~IsMine(p, k)

\* for (size_t i = 1; i < prm.data_.size(); ++i) if (mine) index_.add(node)
WorkerLoop(p) ==
  /\ p \in Workers
  /\ th[p].pc = "w_loop"
  /\ LET j == IF th[p].i < dataSize THEN NextMine(p, th[p].i) ELSE th[p].i
     IN IF j < dataSize
        THEN Goto(p, [th[p] EXCEPT !.pc = "add", !.i = j, !.newElement = j,
                                   !.ret = "w_loop"])
        ELSE Goto(p, [th[p] EXCEPT !.pc = "w_done", !.i = j])
  /\ UNCHANGED <<params, randLog, resultOf, graph, locks, qry, outcome>>

\* ------------------------------------------------------------- add
\* A critical section of the graph mutex ElListGuard_ holds no other lock and
\* blocks on nothing, and the node list is written only inside one: each is
\* one step here, taken with the mutex free before and after it.

\* Mutant of AddIsEmpty: the emptiness of the list is not seen.
AddIsEmptyNever == FALSE

\* isEmpty = ElList_.empty();
AddIsEmpty == ElList_ = <<>>

\* The thread an exception leaves add() in: the client catches it, a build
\* thread does not.
AfterThrow(l) ==
  [IdleLocals EXCEPT !.pc = IF l.ret = "ready" THEN "ready" ELSE "terminated",
                     !.i = l.i]

\* newElement->removeAllFriends(); { lock; isEmpty = ElList_.empty(); }
\* if (isEmpty) throw runtime_error("Bug: the list of nodes shouldn't be empty!");
AddCheck(p) ==
  /\ th[p].pc = "add"
  /\ friends' = [friends EXCEPT ![th[p].newElement] = <<>>]
  /\ IF AddIsEmpty
     THEN /\ Goto(p, AfterThrow(th[p]))
          /\ outcome' = IF p = Main THEN "empty_bug" ELSE outcome
     ELSE /\ Goto(p, [th[p] EXCEPT !.pc = "ks"])
          /\ UNCHANGED outcome
  /\ UNCHANGED <<params, randLog, resultOf, ElList_, addIndex_, locks, qry>>

\* ------------------------------------------ kSearchElementsWithAttempts
\* if (currEv.getDistance() > lowerBound) break;
LocalMinimum(dTop, lowerBound) == dTop > lowerBound

\* while (!candidateSet.empty()) ... break: the traversal of one attempt ends
\* and the next attempt begins (candidateSet and closestDistQueue are locals
\* of the attempt).
LoopExit(l) ==
  LET dist == [n \in Nodes |-> IndexTimeDistance(l.newElement, n)]
      tops == MinNodes(l.candidateSet, dist)
  IN IF /\ l.pc = "ks_loop"
        /\ \/ tops = {}
           \/ \E c \in tops : LocalMinimum(dist[c], DistTop(l.closestDistQueue))
     THEN [l EXCEPT !.pc = "ks_attempt", !.attempt = @ + 1,
                    !.candidateSet = EmptyBag, !.closestDistQueue = <<>>]
     ELSE l

\* for (size_t i=0; i < initIndexAttempts; i++): after the last attempt the
\* function returns to add(), its bitset gone.
AttemptsDone(l) ==
  IF l.pc = "ks_attempt" /\ ~(l.attempt < initIndexAttempts_)
  THEN [l EXCEPT !.pc = "link_loop", !.attempt = 0, !.entryQty = 0,
                 !.visitedBitset = {}]
  ELSE l

\* Mutant of LinkDone: add() goes on to addCriticalSection without linking.
LinkDoneAtOnce(l) ==
  IF l.pc = "link_loop" THEN [l EXCEPT !.pc = "acs"] ELSE l

\* while (!resultSet.empty()): with the result set empty add() goes on to
\* addCriticalSection.
LinkDone(l) ==
  IF l.pc = "link_loop" /\ Support(l.resultSet) = {}
  THEN [l EXCEPT !.pc = "acs"]
  ELSE l

\* The thread's own steps up to its next access to shared state.
Settle(l) == LinkDone(AttemptsDone(LoopExit(l)))

\* The end of kSearchElementsWithAttempts (line 322) is put on record: when
\* the step of thread p leaves the function, the nodes of the resultSet it
\* returns to add(newElement).
Returned(p) ==
  IF th'[p].pc \in {"link_loop", "acs"}
  THEN [resultOf EXCEPT ![th[p].newElement] = Support(th'[p].resultSet)]
  ELSE resultOf

\* getEntryQtyLocked(): size_t entryQty = ElList_.size();
\* vector<bool> visitedBitset(entryQty);
KsQty(p) ==
  /\ th[p].pc = "ks"
  /\ Goto(p, Settle([th[p] EXCEPT !.pc = "ks_attempt",
                                  !.entryQty = Len(ElList_),
                                  !.visitedBitset = {}, !.attempt = 0]))
  /\ UNCHANGED <<params, randLog, graph, locks, qry, outcome>>
  /\ resultOf' = Returned(p)

\* getRandomEntryPoint(): NULL if the list is empty, else ElList_[rand()%size]
getRandomEntryPoint ==
  IF Len(ElList_) = 0 THEN {NoNode}
  ELSE {ElList_[num + 1] : num \in 0 .. (Len(ElList_) - 1)}

\* Mutant of MarkVisited: the index is not compared with entryQty.
MarkVisitedAlways(visited, index, entryQty) == visited \cup {index}

\* if (provider->addIndex_ < entryQty) visitedBitset[provider->addIndex_] = true;
MarkVisited(visited, index, entryQty) ==
  IF index < entryQty THEN visited \cup {index} ELSE visited

\* Mutant of SeedResult: the seed of an attempt is not put into resultSet.
SeedResultDropped(resultSet, provider) == resultSet

\* resultSet.emplace(d, provider);
SeedResult(resultSet, provider) == BagPush(resultSet, provider)

WithinBound(b) == \A n \in Nodes : b[n] <= MaxQueue

\* size_t num = rand()%size; return ElList_[num]: the entry point is put on
\* record. The record is kept of the operations on an index built by one
\* thread (the build, then each call of the client, which starts it anew).
Logged(log, provider) ==
  IF indexThreadQty_ <= 1 /\ provider # NoNode THEN Append(log, provider)
  ELSE log

\* The seed of one attempt: getRandomEntryPointLocked(), then the distance,
\* candidateSet, closestDistQueue, visitedBitset, resultSet (lines 236-257).
\* A null provider is dereferenced: undefined, the thread is lost.
KsSeed(p) ==
  /\ th[p].pc = "ks_attempt"
  /\ th[p].attempt < initIndexAttempts_
  /\ \E provider \in getRandomEntryPoint :
       IF provider = NoNode
       THEN /\ Goto(p, [IdleLocals EXCEPT !.pc = "crashed"])
            /\ UNCHANGED randLog
       ELSE LET l == th[p]
                d == IndexTimeDistance(l.newElement, provider)
                r == SeedResult(l.resultSet, provider)
            IN /\ WithinBound(r)
               /\ randLog' = Logged(randLog, provider)
               /\ Goto(p, Settle([l EXCEPT
                    !.pc = "ks_loop",
                    !.candidateSet = BagPush(EmptyBag, provider),
                    !.closestDistQueue = <<d>>,
                    !.visitedBitset =
                       MarkVisited(@, addIndex_[provider], l.entryQty),
                    !.resultSet = r]))
  /\ UNCHANGED <<params, graph, locks, qry, outcome>>
  /\ resultOf' = Returned(p)

\* if (resultSet.size() < NN || resultSet.top().getDistance() > d) {
\*   resultSet.emplace(d, *iter); if (resultSet.size() > NN) resultSet.pop(); }
ResultPush(resultSet, n, dist) ==
  IF \/ BagSize(resultSet) < NN_
     \/ \E t \in MaxNodes(resultSet, dist) : dist[t] > dist[n]
  THEN LET r == BagPush(resultSet, n)
       IN IF BagSize(r) > NN_
          THEN {BagPop(r, t) : t \in MaxNodes(r, dist)}
          ELSE {r}
  ELSE {resultSet}

\* if (nodeAddIndex >= entryQty || !visitedBitset[nodeAddIndex])
NotVisited(visited, nodeAddIndex, entryQty) ==
  nodeAddIndex >= entryQty \/ nodeAddIndex \notin visited

\* The body of for (auto iter = neighbor.begin(); ...) for the neighbor at
\* position l.iter of currNode's friends: the locals it may leave.
Neighbor(l) ==
  LET n == friends[l.currNode][l.iter]
      nodeAddIndex == addIndex_[n]
      dist == [m \in Nodes |-> IndexTimeDistance(l.newElement, m)]
  IN IF NotVisited(l.visitedBitset, nodeAddIndex, l.entryQty)
     THEN {[l EXCEPT !.iter = @ + 1,
                     !.visitedBitset = MarkVisited(@, nodeAddIndex, l.entryQty),
                     !.closestDistQueue = ClosestPush(@, dist[n], NN_),
                     !.candidateSet = BagPush(@, n),
                     !.resultSet = r] :
             r \in {x \in ResultPush(l.resultSet, n, dist) :
                      WithinBound(x) /\ WithinBound(BagPush(l.candidateSet, n))}}
     ELSE {[l EXCEPT !.iter = @ + 1]}

\* The end of the body of the while loop: the lock on currNode is released.
Released(l) == [l EXCEPT !.pc = "ks_loop", !.currNode = NoNode, !.iter = 0]

\* One pass of while (!candidateSet.empty()) up to its first neighbor: the
\* top candidate is locked (unique_lock on currNode->accessGuard_) and popped.
\* The lock is kept while there are neighbors left.
KsLoop(p) ==
  /\ th[p].pc = "ks_loop"
  /\ LET l == th[p]
         dist == [n \in Nodes |-> IndexTimeDistance(l.newElement, n)]
     IN \E c \in MinNodes(l.candidateSet, dist) :
          /\ accessGuard_[c] = NoProc
          /\ LET l1 == [l EXCEPT !.currNode = c, !.iter = 1,
                                 !.candidateSet = BagPop(@, c)]
             IN IF Len(friends[c]) = 0
                THEN /\ Goto(p, Settle(Released(l1)))
                     /\ UNCHANGED accessGuard_
                ELSE \E l2 \in Neighbor(l1) :
                       IF Len(friends[c]) = 1
                       THEN /\ Goto(p, Settle(Released(l2)))
                            /\ UNCHANGED accessGuard_
                       ELSE /\ Goto(p, [l2 EXCEPT !.pc = "ks_iter"])
                            /\ accessGuard_' = [accessGuard_ EXCEPT ![c] = p]
  /\ UNCHANGED <<params, randLog, graph, qry, outcome>>
  /\ resultOf' = Returned(p)

\* Mutant of Unlock: the lock on currNode outlives the body of the loop.
UnlockNever(c) == accessGuard_

\* The unique_lock on currNode->accessGuard_ goes out of scope at the end of
\* the body of the while loop.
Unlock(c) == [accessGuard_ EXCEPT ![c] = NoProc]

\* The next neighbor of currNode, the lock on currNode held; after the last
\* one the lock is released.
KsIter(p) ==
  /\ th[p].pc = "ks_iter"
  /\ LET l == th[p]
         c == l.currNode
     IN /\ accessGuard_[c] = p
        /\ \E l2 \in Neighbor(l) :
             IF l.iter = Len(friends[c])
             THEN /\ Goto(p, Settle(Released(l2)))
                  /\ accessGuard_' = Unlock(c)
             ELSE /\ Goto(p, l2)
                  /\ UNCHANGED accessGuard_
  /\ UNCHANGED <<params, randLog, graph, qry, outcome>>
  /\ resultOf' = Returned(p)

\* ------------------------------------------------------ link, addFriend
\* friends.push_back(element), under the node's accessGuard_
addFriend(fr, node, element) == [fr EXCEPT ![node] = Append(@, element)]

\* link(resultSet.top().getMSWNode(), newElement), its first half:
\* first->addFriend(second) under first's mutex
LinkFirst(p) ==
  /\ th[p].pc = "link_loop"
  /\ LET l == th[p]
         dist == [n \in Nodes |-> IndexTimeDistance(l.newElement, n)]
     IN \E r \in MaxNodes(l.resultSet, dist) :
          /\ accessGuard_[r] = NoProc
          /\ friends' = addFriend(friends, r, l.newElement)
          /\ Goto(p, [l EXCEPT !.pc = "link_second", !.currNode = r])
  /\ UNCHANGED <<params, randLog, resultOf, ElList_, addIndex_, locks, qry, outcome>>

\* link's second half, second->addFriend(first) under second's mutex, and
\* resultSet.pop()
LinkSecond(p) ==
  /\ th[p].pc = "link_second"
  /\ LET l == th[p] IN
       /\ accessGuard_[l.newElement] = NoProc
       /\ friends' = addFriend(friends, l.newElement, l.currNode)
       /\ Goto(p, Settle([l EXCEPT !.pc = "link_loop", !.currNode = NoNode,
                                   !.resultSet = BagPop(@, l.currNode)]))
  /\ UNCHANGED <<params, randLog, resultOf, ElList_, addIndex_, locks, qry, outcome>>

\* ------------------------------------------------ addCriticalSection
\* Mutant of NextAddIndex: the index is taken after the push.
NextAddIndexAfterPush == Len(ElList_) + 1

\* newElement->addIndex_ = ElList_.size();
NextAddIndex == Len(ElList_)

\* The caller's position after add() has returned: the loops go on with ++i.
AfterAcs(l) ==
  [IdleLocals EXCEPT !.pc = l.ret,
                     !.i = IF l.ret \in {"seq_loop", "w_loop"}
                           THEN l.i + 1 ELSE l.i]

\* unique_lock<mutex> lock(ElListGuard_);
\* newElement->addIndex_ = ElList_.size(); ElList_.push_back(newElement);
addCriticalSection(p) ==
  /\ th[p].pc = "acs"
  /\ addIndex_' = [addIndex_ EXCEPT ![th[p].newElement] = NextAddIndex]
  /\ ElList_' = Append(ElList_, th[p].newElement)
  /\ Goto(p, AfterAcs(th[p]))
  /\ UNCHANGED <<params, randLog, resultOf, friends, locks, qry, outcome>>

\* ------------------------------------------------- the client's calls
\* The values a k-NN query asks for.
QueryValues == {0, 14}

\* A call of add() by the client of a constructed index, with a new node.
ClientAdd ==
  /\ th[Main].pc = "ready"
  /\ Len(ElList_) < MaxN
  /\ Goto(Main, [th[Main] EXCEPT !.pc = "add", !.newElement = Len(ElList_),
                                 !.ret = "ready"])
  /\ outcome' = "pending"
  /\ qry' = IdleQuery
  /\ randLog' = <<>>
  /\ UNCHANGED <<params, resultOf, graph, locks>>

\* Mutant of RangeOutcome: the function returns without throwing.
RangeOutcomeReturns == "ok"

\* throw runtime_error("Range search is not supported!");
RangeOutcome == "unsupported"

\* A call of Search(RangeQuery) by the client of a constructed index.
ClientRange ==
  /\ th[Main].pc = "ready"
  /\ Goto(Main, [th[Main] EXCEPT !.pc = "range"])
  /\ outcome' = "pending"
  /\ qry' = IdleQuery
  /\ randLog' = <<>>
  /\ UNCHANGED <<params, resultOf, graph, locks>>

\* Search(RangeQuery<dist_t>* query)
SearchRange ==
  /\ th[Main].pc = "range"
  /\ outcome' = RangeOutcome
  /\ Goto(Main, [th[Main] EXCEPT !.pc = "ready"])
  /\ UNCHANGED <<params, randLog, resultOf, graph, locks, qry>>

\* query->DistanceObjLeft(object)
DistanceObjLeft(v, n) == Distance(v, Payload(n))

\* Mutant of BitsetOfQuery: the bitset of the query before is used again.
BitsetOfQueryBefore == qry.visitedBitset

\* vector<bool> visitedBitset(ElList_.size()): a local of the call, all false
BitsetOfQuery == {}

\* Search(KNNQuery<dist_t>* query): vector<bool> visitedBitset(ElList_.size());
SearchKNN ==
  /\ th[Main].pc = "ready"
  /\ \E v \in QueryValues :
       qry' = [IdleQuery EXCEPT !.value = v, !.bitsetSize = Len(ElList_),
                               !.visitedBitset = BitsetOfQuery]
  /\ outcome' = "pending"
  /\ Goto(Main, [th[Main] EXCEPT !.pc = "q_attempt"])
  /\ randLog' = <<>>
  /\ UNCHANGED <<params, resultOf, graph, locks>>

\* The end of a query: by return, by the runtime_error, or by a read through
\* a null pointer or outside the bitset (undefined: the process is lost).
QueryEnd(q) ==
  /\ qry' = q
  /\ outcome' = IF q.error = "none" THEN "ok" ELSE q.error
  /\ Goto(Main, [th[Main] EXCEPT !.pc = IF q.error = "undefined"
                                        THEN "crashed" ELSE "ready"])

\* query->CheckAndAddToResult(d, currObj): the collector is handed the object
CheckAndAddToResult(reported, n) == reported \cup {n}

\* The seed of one attempt of the query: lines 379-395. The seed's distance
\* is computed and pushed; CheckAndAddToResult is not called for it.
QSeeded(q, provider) ==
  IF provider = NoNode THEN [q EXCEPT !.error = "undefined"]
  ELSE LET d == DistanceObjLeft(q.value, provider)
           q1 == [q EXCEPT !.evaluated = @ \cup {provider},
                           !.candidateQueue = BagPush(EmptyBag, provider),
                           !.closestDistQueue = <<d>>]
       IN IF addIndex_[provider] = SizeMax
          THEN [q1 EXCEPT !.error = "uninit_bug"]
          ELSE IF addIndex_[provider] >= q.bitsetSize
               THEN [q1 EXCEPT !.error = "undefined"]
               ELSE [q1 EXCEPT !.visitedBitset = @ \cup {addIndex_[provider]}]

\* for (size_t i=0; i < initSearchAttempts_; i++): the next attempt's seed,
\* or the return after the last attempt.
QAttempt ==
  /\ th[Main].pc = "q_attempt"
  /\ IF qry.attempt < initSearchAttempts_
     THEN \E provider \in getRandomEntryPoint :
            LET q == QSeeded(qry, provider)
            IN /\ randLog' = Logged(randLog, provider)
               /\ IF q.error = "none"
                  THEN /\ qry' = q
                       /\ Goto(Main, [th[Main] EXCEPT !.pc = "q_loop"])
                       /\ UNCHANGED outcome
                  ELSE QueryEnd(q)
     ELSE QueryEnd(qry) /\ UNCHANGED randLog
  /\ UNCHANGED <<params, resultOf, graph, locks>>

\* The loop over the neighbors of the popped candidate, from the k-th on:
\* lines 415-433.
RECURSIVE QNeighbors(_, _, _)
QNeighbors(q, neighbor, k) ==
  IF k > Len(neighbor) THEN q
  ELSE LET n == neighbor[k]
           nodeAddIndex == addIndex_[n]
           d == DistanceObjLeft(q.value, n)
       IN IF nodeAddIndex = SizeMax THEN [q EXCEPT !.error = "uninit_bug"]
          ELSE IF nodeAddIndex >= q.bitsetSize
               THEN [q EXCEPT !.error = "undefined"]
               ELSE IF nodeAddIndex \notin q.visitedBitset
                    THEN QNeighbors(
                           [q EXCEPT
                              !.evaluated = @ \cup {n},
                              !.visitedBitset = @ \cup {nodeAddIndex},
                              !.closestDistQueue = ClosestPush(@, d, NN_),
                              !.candidateQueue = BagPush(@, n),
                              !.reported = CheckAndAddToResult(@, n)],
                           neighbor, k + 1)
                    ELSE QNeighbors(q, neighbor, k + 1)

\* while(!candidateQueue.empty()): one candidate is popped and expanded, or
\* the loop is left and the next attempt begins.
QLoop ==
  /\ th[Main].pc = "q_loop"
  /\ LET dist == [n \in Nodes |-> DistanceObjLeft(qry.value, n)]
         tops == MinNodes(qry.candidateQueue, dist)
     IN IF \/ tops = {}
           \/ \E c \in tops :
                LocalMinimum(dist[c], DistTop(qry.closestDistQueue))
        THEN /\ qry' = [qry EXCEPT !.attempt = @ + 1,
                                   !.candidateQueue = EmptyBag,
                                   !.closestDistQueue = <<>>]
             /\ Goto(Main, [th[Main] EXCEPT !.pc = "q_attempt"])
             /\ UNCHANGED outcome
        ELSE \E c \in tops :
               LET q == QNeighbors(
                          [qry EXCEPT !.candidateQueue = BagPop(@, c)],
                          friends[c], 1)
               IN IF q.error = "none"
                  THEN /\ qry' = q
                       /\ UNCHANGED <<th, outcome>>
                  ELSE QueryEnd(q)
  /\ UNCHANGED <<params, randLog, resultOf, graph, locks>>

\* ------------------------------------------------------ specifications
\* add(space, newElement), step by step
add(p) ==
  \/ AddCheck(p)
  \/ KsQty(p)
  \/ KsSeed(p)
  \/ KsLoop(p)
  \/ KsIter(p)
  \/ LinkFirst(p)
  \/ LinkSecond(p)
  \/ addCriticalSection(p)

Next ==
  \/ CtorEmpty
  \/ CtorSeed
  \/ CtorSequential
  \/ CtorSpawn
  \/ SeqLoop
  \/ Join
  \/ \E p \in Workers : WorkerLoop(p)
  \/ \E p \in Procs : add(p)

Spec == Init /\ [][Next]_vars

\* A sequentially built index (indexThreadQty_ <= 1) and its client.
InitClient == Init /\ indexThreadQty_ <= 1

NextClient ==
  \/ CtorEmpty
  \/ CtorSeed
  \/ CtorSequential
  \/ SeqLoop
  \/ add(Main)
  \/ ClientAdd
  \/ ClientRange
  \/ SearchRange
  \/ SearchKNN
  \/ QAttempt
  \/ QLoop

SpecClient == InitClient /\ [][NextClient]_vars

\* A multi-threaded build (indexThreadQty_ > 1) under a fair scheduler: a
\* thread that can take a step, and stays able to, takes one.
InitThreads == Init /\ indexThreadQty_ > 1

ConstructorStep == CtorEmpty \/ CtorSeed \/ CtorSpawn \/ Join \/ add(Main)

IndexThreadSW(p) == WorkerLoop(p) \/ add(p)

NextThreads ==
  \/ CtorEmpty
  \/ CtorSeed
  \/ CtorSpawn
  \/ Join
  \/ \E p \in Workers : WorkerLoop(p)
  \/ \E p \in Procs : add(p)

SpecThreads ==
  /\ InitThreads
  /\ [][NextThreads]_vars
  /\ WF_vars(ConstructorStep)
  /\ \A p \in Workers : WF_vars(IndexThreadSW(p))


\* ------------------------------------- the build by one thread, as a function
\* With indexThreadQty_ <= 1 the constructor is one thread running add() for
\* data[1], data[2], ... in turn. Here it is a function of the data size and of
\* the entry points rand() chooses; g is a record of the node list, the
\* addIndex_ values and the friends lists. Where a heap holds several entries
\* of the smallest (largest) distance, CHOOSE stands for the one that
\* std::priority_queue has on top.
EmptyGraph ==
  [ElList_ |-> <<>>, addIndex_ |-> [n \in Nodes |-> SizeMax],
   friends |-> [n \in Nodes |-> <<>>]]

\* addCriticalSection(newElement) on g
SeqPublish(g, x) ==
  [g EXCEPT !.addIndex_[x] = Len(g.ElList_), !.ElList_ = Append(@, x)]

\* The neighbor loop of lines 283-319 from the k-th neighbor on; t holds
\* visitedBitset, candidateSet, closestDistQueue and resultSet.
RECURSIVE SeqNeighbors(_, _, _, _, _, _)
SeqNeighbors(g, x, entryQty, t, neighbor, k) ==
  IF k > Len(neighbor) THEN t
  ELSE LET n == neighbor[k]
           nodeAddIndex == g.addIndex_[n]
           dist == [m \in Nodes |-> IndexTimeDistance(x, m)]
       IN IF NotVisited(t.visitedBitset, nodeAddIndex, entryQty)
          THEN SeqNeighbors(g, x, entryQty,
                 [visitedBitset |->
                    MarkVisited(t.visitedBitset, nodeAddIndex, entryQty),
                  closestDistQueue |->
                    ClosestPush(t.closestDistQueue, dist[n], NN_),
                  candidateSet |-> BagPush(t.candidateSet, n),
                  resultSet |->
                    CHOOSE r \in ResultPush(t.resultSet, n, dist) : TRUE],
                 neighbor, k + 1)
          ELSE SeqNeighbors(g, x, entryQty, t, neighbor, k + 1)

\* while (!candidateSet.empty()) of lines 259-320
RECURSIVE SeqTraverse(_, _, _, _)
SeqTraverse(g, x, entryQty, t) ==
  LET dist == [m \in Nodes |-> IndexTimeDistance(x, m)]
      tops == MinNodes(t.candidateSet, dist)
  IN IF \/ tops = {}
        \/ \E c \in tops : LocalMinimum(dist[c], DistTop(t.closestDistQueue))
     THEN t
     ELSE LET c == CHOOSE n \in tops : TRUE
          IN SeqTraverse(g, x, entryQty,
               SeqNeighbors(g, x, entryQty,
                 [t EXCEPT !.candidateSet = BagPop(@, c)], g.friends[c], 1))

\* for (size_t i=0; i < initIndexAttempts; i++) of lines 231-321, from the
\* k-th attempt on: the visited set and the result set pass from each
\* attempt to the next, seeds[k] is the entry point of the k-th.
RECURSIVE SeqAttempts(_, _, _, _, _, _, _)
SeqAttempts(g, x, entryQty, visited, resultSet, seeds, k) ==
  IF k > Len(seeds) THEN resultSet
  ELSE LET provider == seeds[k]
           t == SeqTraverse(g, x, entryQty,
                  [visitedBitset |->
                     MarkVisited(visited, g.addIndex_[provider], entryQty),
                   candidateSet |-> BagPush(EmptyBag, provider),
                   closestDistQueue |-> <<IndexTimeDistance(x, provider)>>,
                   resultSet |-> SeedResult(resultSet, provider)])
       IN SeqAttempts(g, x, entryQty, t.visitedBitset, t.resultSet,
                      seeds, k + 1)

\* while (!resultSet.empty()) { link(resultSet.top(), newElement); pop(); }
RECURSIVE SeqLink(_, _, _)
SeqLink(g, x, resultSet) ==
  IF Support(resultSet) = {} THEN g
  ELSE LET dist == [m \in Nodes |-> IndexTimeDistance(x, m)]
           r == CHOOSE n \in MaxNodes(resultSet, dist) : TRUE
       IN SeqLink([g EXCEPT !.friends = addFriend(addFriend(@, r, x), x, r)],
                  x, BagPop(resultSet, r))

\* add(space, newElement) on a list that is not empty
SeqAdd(g, x, seeds) ==
  LET g0 == [g EXCEPT !.friends[x] = <<>>]
      resultSet == SeqAttempts(g0, x, Len(g.ElList_), {}, EmptyBag, seeds, 1)
  IN SeqPublish(SeqLink(g0, x, resultSet), x)

\* The constructor for data of size n and the entry points of log, of which
\* each add() uses initIndexAttempts_.
RECURSIVE SeqBuild(_, _)
SeqBuild(n, log) ==
  IF n = 0 THEN EmptyGraph
  ELSE IF n = 1 THEN SeqPublish(EmptyGraph, 0)
  ELSE LET used == initIndexAttempts_ * (n - 2)
       IN SeqAdd(SeqBuild(n - 1, SubSeq(log, 1, used)), n - 1,
                 SubSeq(log, used + 1, used + initIndexAttempts_))

\* ----------------------------------------- the k-NN query, as a function
\* Search(KNNQuery) on the graph as it is, as a function of the query value
\* and of the entry points rand() chooses.

\* while(!candidateQueue.empty()) of lines 397-434, to its end
RECURSIVE QTraverse(_)
QTraverse(q) ==
  LET dist == [n \in Nodes |-> DistanceObjLeft(q.value, n)]
      tops == MinNodes(q.candidateQueue, dist)
  IN IF q.error # "none" THEN q
     ELSE IF \/ tops = {}
             \/ \E c \in tops :
                  LocalMinimum(dist[c], DistTop(q.closestDistQueue))
          THEN [q EXCEPT !.attempt = @ + 1, !.candidateQueue = EmptyBag,
                         !.closestDistQueue = <<>>]
          ELSE LET c == CHOOSE n \in tops : TRUE
               IN QTraverse(QNeighbors([q EXCEPT !.candidateQueue = BagPop(@, c)],
                                       friends[c], 1))

\* for (size_t i=0; i < initSearchAttempts_; i++) from the k-th attempt on
RECURSIVE QAttempts(_, _, _)
QAttempts(q, seeds, k) ==
  IF k > Len(seeds) \/ q.error # "none" THEN q
  ELSE QAttempts(QTraverse(QSeeded(q, seeds[k])), seeds, k + 1)

\* What Search(KNNQuery) for the value v leaves, the entry points being seeds
SearchFn(v, seeds) ==
  QAttempts([IdleQuery EXCEPT !.value = v, !.bitsetSize = Len(ElList_)],
            seeds, 1)

\* ---------------------------------------------------------------- claims
\* The constructor has returned and the client has made no call yet.
BuildReturned == th[Main].pc = "ready" /\ outcome = "none"

Published == {ElList_[k] : k \in 1 .. Len(ElList_)}

InFriends(x, a) == \E k \in 1 .. Len(friends[a]) : friends[a][k] = x

\* The nodes reached from the nodes of S by following friend edges.
RECURSIVE ReachableFrom(_)
ReachableFrom(S) ==
  LET T == S \cup {x \in Nodes : \E a \in S : InFriends(x, a)}
  IN IF T = S THEN S ELSE ReachableFrom(T)

Min(a, b) == IF a < b THEN a ELSE b

\* C1 (density): in every state the node at position i of the node list has
\* addIndex_ = i (positions counted from 0); an addIndex_ that has been set
\* never changes; and when the build over the data returns, the node list
\* holds exactly data.size() nodes whose addIndex_ values are exactly
\* 0 .. data.size()-1.
C1_Density ==
  /\ [](\A k \in 1 .. Len(ElList_) : addIndex_[ElList_[k]] = k - 1)
  /\ [][\A n \in Nodes :
          addIndex_[n] # SizeMax => addIndex_'[n] = addIndex_[n]]_vars
  /\ [](BuildReturned =>
          /\ Len(ElList_) = dataSize
          /\ Cardinality(Published) = dataSize
          /\ {addIndex_[n] : n \in Published} = 0 .. (dataSize - 1))

\* A multi-threaded build of MaxN objects has returned.
C1_Witness ==
  /\ BuildReturned
  /\ indexThreadQty_ > 1
  /\ dataSize = MaxN
  /\ Len(ElList_) = MaxN

\* C2 (eventual undirectedness): once the build has returned, that is once
\* every add() of it has completed, B is in A's friends list if and only if
\* A is in B's friends list, for all nodes A and B.
C2_Undirected ==
  BuildReturned =>
    \A a \in Nodes : \A b \in Nodes : InFriends(b, a) <=> InFriends(a, b)

\* A multi-threaded build has returned and its last node has friends.
C2_Witness ==
  /\ BuildReturned
  /\ indexThreadQty_ > 1
  /\ dataSize = MaxN
  /\ friends[MaxN - 1] # <<>>

\* C3 (degree at insert): when add(x) publishes x (it is about to enter
\* addCriticalSection, all its links made), the friends list of x has size
\* exactly min(NN, N0), N0 the size of the node list just before the insert.
\* The size is taken both ways, with and without the repeated entries of the
\* list, so that a violation does not rest on addFriend keeping duplicates.
C3_DegreeAtInsert ==
  \A p \in Procs :
    (th[p].pc = "acs" /\ th[p].ret # "ctor_branch") =>
      LET x == th[p].newElement
      IN \/ Len(friends[x]) = Min(NN_, Len(ElList_))
         \/ Cardinality({n \in Nodes : InFriends(n, x)}) = Min(NN_, Len(ElList_))

\* C4 (reachability): after a build over at least NN+1 objects has returned,
\* every published node has at least one friend and every node is reachable
\* from every node by following friend edges.
C4_Reachability ==
  (BuildReturned /\ dataSize >= NN_ + 1) =>
    /\ \A n \in Published : friends[n] # <<>>
    /\ \A n \in Published : ReachableFrom({n}) = Published

\* A multi-threaded build over MaxN >= NN+1 objects has returned.
C4_Witness ==
  /\ BuildReturned
  /\ indexThreadQty_ > 1
  /\ dataSize = MaxN
  /\ dataSize >= NN_ + 1
  /\ Cardinality(Published) = MaxN

\* C8 (work partition): the node of data[0] is published with addIndex_ 0
\* before any worker starts; with T > 1 workers a node i >= 1 is inserted only
\* by the worker w = i mod T; no node is in the node list twice and, when the
\* build returns, none is missing; with T <= 1 no worker runs and the node
\* list is in the order of the data.
C8_Partition ==
  /\ \A p \in Workers :
       th[p].pc # "idle" =>
         /\ indexThreadQty_ > 1
         /\ Len(ElList_) >= 1 /\ ElList_[1] = 0 /\ addIndex_[0] = 0
  /\ \A p \in Workers :
       th[p].newElement # NoNode =>
         /\ th[p].newElement >= 1
         /\ th[p].newElement % indexThreadQty_ = p
  /\ \A j \in 1 .. Len(ElList_) : \A k \in 1 .. Len(ElList_) :
       ElList_[j] = ElList_[k] => j = k
  /\ BuildReturned => Published = 0 .. (dataSize - 1)
  /\ indexThreadQty_ <= 1 => \A k \in 1 .. Len(ElList_) : ElList_[k] = k - 1

\* Both workers of a two-thread build have inserted and the build returned.
C8_Witness ==
  /\ BuildReturned
  /\ indexThreadQty_ = 2
  /\ dataSize = MaxN
  /\ \E j \in 1 .. Len(ElList_) : ElList_[j] # 0 /\ ElList_[j] % 2 = 0
  /\ \E j \in 1 .. Len(ElList_) : ElList_[j] % 2 = 1

\* C5 (query reporting): every node whose distance to the query has been
\* evaluated by Search(KNNQuery), the seed of each attempt included, has been
\* reported to the collector; so the query for data[0] on the index of one
\* object reports that object.
C5_EvaluatedReported == qry.evaluated \subseteq qry.reported

\* The distances from v to the nodes of S, ascending.
RECURSIVE SortedDists(_, _)
SortedDists(S, v) ==
  IF S = {} THEN <<>>
  ELSE LET n == CHOOSE x \in S :
                  \A y \in S : DistanceObjLeft(v, x) <= DistanceObjLeft(v, y)
       IN <<DistanceObjLeft(v, n)>> \o SortedDists(S \ {n}, v)

\* What a collector of the k closest objects holds of S: their distances.
KClosest(S, v, k) == SubSeq(SortedDists(S, v), 1, Min(k, Cardinality(S)))

\* C6 (exact k-NN in the integer space): when a k-NN query on a sequentially
\* built index has returned, the k closest of the reported objects are the k
\* indexed objects closest to the query value, for every k up to NN.
C6_ExactKNN ==
  (th[Main].pc = "ready" /\ outcome = "ok") =>
    \A k \in 1 .. Min(NN_, Len(ElList_)) :
      KClosest(qry.reported, qry.value, k) = KClosest(Published, qry.value, k)

\* A heap of some thread holds a node MaxQueue times: the bound of the model.
QueueBoundReached ==
  \E p \in Procs : \E n \in Nodes :
    th[p].candidateSet[n] = MaxQueue \/ th[p].resultSet[n] = MaxQueue

\* C7 (every add() terminates): under fair scheduling the traversal loop of
\* every insertion is left, every worker finishes and the constructor returns
\* after joining them (or the run leaves the bound on the heaps of the model).
C7_BuildReturns == <>(BuildReturned \/ QueueBoundReached)

\* C9 (seeding protocol violation): add(x) on an index whose node list is
\* empty ends with the fatal error, the node list still empty and x in no
\* friends list; and after that error the node list is empty.
C9_AddOnEmpty ==
  /\ [][(th[Main].pc = "add" /\ ElList_ = <<>>) =>
          /\ outcome' = "empty_bug"
          /\ th'[Main].pc = "ready"
          /\ ElList_' = <<>>
          /\ \A n \in Nodes : \A k \in 1 .. Len(friends'[n]) :
               friends'[n][k] # th[Main].newElement]_vars
  /\ [](outcome = "empty_bug" =>
          ElList_ = <<>> /\ \A n \in Nodes : friends[n] = <<>>)

\* add() on the index of an empty data sequence has thrown.
C9_Witness == outcome = "empty_bug" /\ dataSize = 0 /\ th[Main].pc = "ready"

\* C10 (range search is rejected): Search(RangeQuery), on an empty index or
\* not, ends at once with the unsupported-operation error: no distance is
\* evaluated, nothing is reported, and the node list, every addIndex_ and
\* every friends list are unchanged.
C10_RangeRejected ==
  [][th[Main].pc = "range" =>
       /\ outcome' = "unsupported"
       /\ th'[Main].pc = "ready"
       /\ qry'.evaluated = {} /\ qry'.reported = {}
       /\ UNCHANGED graph]_vars

\* A range search on an index of several nodes has been rejected.
C10_Witness == outcome = "unsupported" /\ Len(ElList_) > 1

\* C11 (build determinism): the graph a build by one thread (indexThreadQty
\* <= 1) returns is a function of the data and of the sequence of entry points
\* its calls of rand() chose; so two such builds over the same data with the
\* same random outputs return the same node list, the same addIndex_ values
\* and the same friends lists.
C11_Deterministic ==
  (BuildReturned /\ indexThreadQty_ <= 1) =>
    LET g == SeqBuild(dataSize, randLog)
    IN /\ Len(randLog) = initIndexAttempts_ * (IF dataSize = 0 THEN 0
                                               ELSE dataSize - 1)
       /\ ElList_ = g.ElList_
       /\ addIndex_ = g.addIndex_
       /\ friends = g.friends

\* A build by one thread of MaxN objects has returned and not every one of
\* its traversals started at the first node.
C11_Witness ==
  /\ BuildReturned
  /\ indexThreadQty_ = 1
  /\ dataSize = MaxN
  /\ \E k \in 1 .. Len(randLog) : randLog[k] = MaxN - 2
  /\ \E k \in 1 .. Len(randLog) : randLog[k] = 0

\* A k-NN query is running, or has returned normally.
InQuery == th[Main].pc \in {"q_attempt", "q_loop"}

QueryReturned == th[Main].pc = "ready" /\ outcome = "ok"

\* C12 (query idempotence): no step of Search(KNNQuery) changes the node list,
\* an addIndex_ or a friends list; and what a returned query has reported is a
\* function of the graph, of the query value and of the entry points its
\* calls of rand() chose, so that two queries for the same value on the same
\* graph with the same random choices report the same set.
C12_QueryIdempotent ==
  /\ [][(InQuery \/ InQuery') => UNCHANGED graph]_vars
  /\ [](QueryReturned =>
          /\ Len(randLog) = initSearchAttempts_
          /\ qry.reported = SearchFn(qry.value, randLog).reported
          /\ qry.evaluated = SearchFn(qry.value, randLog).evaluated)

\* A query on an index of MaxN nodes has returned, its attempts started at
\* different nodes, and it has reported nodes.
C12_Witness ==
  /\ QueryReturned
  /\ Len(ElList_) = MaxN
  /\ \E j, k \in 1 .. Len(randLog) : randLog[j] # randLog[k]
  /\ Cardinality(qry.reported) > 1

\* The node mutexes thread p holds.
HeldBy(p) == {n \in Nodes : accessGuard_[n] = p}

\* Thread p is in the neighbor loop of its traversal and its next step
\* computes IndexTimeDistance to the neighbor at hand (line 303).
AtDistance(p) ==
  /\ th[p].pc = "ks_iter"
  /\ NotVisited(th[p].visitedBitset,
                addIndex_[friends[th[p].currNode][th[p].iter]],
                th[p].entryQty)

\* C13 (no lock across distance evaluation): a thread that is about to
\* evaluate the distance to a neighbor during an index-time traversal holds
\* no node mutex (the graph mutex is held by no thread between two steps).
C13_NoLockAtDistance == \A p \in Procs : AtDistance(p) => HeldBy(p) = {}

\* Thread q has node x at hand: x is the neighbor it is about to read in its
\* neighbor loop, or an entry of its candidateSet or resultSet (it has read
\* x's addIndex_ and payload through a friend edge), or the node it expands
\* or links (it reads or writes x's friends list).
HasAtHand(q, x) ==
  \/ th[q].pc = "ks_iter" /\ friends[th[q].currNode][th[q].iter] = x
  \/ th[q].candidateSet[x] > 0
  \/ th[q].resultSet[x] > 0
  \/ th[q].currNode = x

\* C14 (an unpublished node is private to its inserter): while x is being
\* inserted and is not yet in the node list, no thread other than the one
\* inserting x has x at hand.
C14_UnpublishedPrivate ==
  \A p \in Procs : \A q \in Procs \ {p} :
    LET x == th[p].newElement
    IN (x # NoNode /\ addIndex_[x] = SizeMax) => ~HasAtHand(q, x)

\* C15 (publish after linking): in every state in which x is in the node
\* list, every node r of the result set that the traversal of add(x) returned
\* has x in its friends list, and x has r in its friends list: link(r, x) was
\* completed for each of them before x was appended.
C15_PublishAfterLink ==
  \A x \in Published : \A r \in resultOf[x] :
    InFriends(x, r) /\ InFriends(r, x)

\* In a multi-threaded build a node with two nodes in its traversal result is
\* in the node list while another thread is in the middle of a link.
C15_Witness ==
  /\ indexThreadQty_ > 1
  /\ \E x \in Published : Cardinality(resultOf[x]) >= 2
  /\ \E p \in Procs : th[p].pc = "link_second"

\* Thread p is inside kSearchElementsWithAttempts, its bitmap allocated.
InTraversal(p) == th[p].pc \in {"ks_attempt", "ks_loop", "ks_iter"}

\* The neighbor that thread p, in its neighbor loop, is about to look at.
AtHand(p) == friends[th[p].currNode][th[p].iter]

\* C16 (index-time visited bitmap): the length N0 of the bitmap is the size of
\* the node list read when the traversal begins and stays what it was to the
\* end of the traversal; only indices < N0 are ever set in it; and a neighbor
\* whose addIndex_ is the sentinel or >= N0 is not in it and is taken as not
\* visited whenever it is met.
C16_VisitedBitmap ==
  /\ [][\A p \in Procs :
          /\ (th[p].pc = "ks" /\ InTraversal(p)') =>
                th'[p].entryQty = Len(ElList_) /\ th'[p].visitedBitset = {}
          /\ (InTraversal(p) /\ InTraversal(p)') =>
                th'[p].entryQty = th[p].entryQty]_vars
  /\ [](\A p \in Procs :
          InTraversal(p) =>
            /\ th[p].visitedBitset \subseteq 0 .. (th[p].entryQty - 1)
            /\ th[p].entryQty <= Len(ElList_))
  /\ [](\A p \in Procs :
          (th[p].pc = "ks_iter" /\ addIndex_[AtHand(p)] >= th[p].entryQty) =>
            /\ addIndex_[AtHand(p)] \notin th[p].visitedBitset
            /\ AtDistance(p))

\* A thread that has marked nodes meets a neighbor that was published after
\* its traversal began.
C16_Witness ==
  \E p \in Procs :
    /\ th[p].pc = "ks_iter"
    /\ th[p].visitedBitset # {}
    /\ addIndex_[AtHand(p)] >= th[p].entryQty
    /\ addIndex_[AtHand(p)] # SizeMax

\* The sequences of entry points the attempts of one query may get from
\* rand() on a node list that is not empty.
SeedChoices == [1 .. initSearchAttempts_ -> Published]

\* C17 (a query on a finished index never meets a sentinel): when a build,
\* by any number of threads, has returned, every node a query can reach (the
\* nodes of the node list and what is reached from them through friends
\* lists) has an addIndex_ below the size of the node list; and no query,
\* whatever its entry points, ends with the 'uninitialized addIndex_' error
\* or reads its bitmap out of range.
C17_NoSentinelAtQuery ==
  BuildReturned =>
    /\ \A n \in ReachableFrom(Published) : addIndex_[n] < Len(ElList_)
    /\ \A v \in QueryValues : \A seeds \in SeedChoices :
         SearchFn(v, seeds).error = "none"

\* A build by several threads of MaxN objects has returned and a query on it
\* that starts twice at the last node evaluates every node.
C17_Witness ==
  /\ BuildReturned
  /\ indexThreadQty_ > 1
  /\ Len(ElList_) = MaxN
  /\ \E v \in QueryValues :
       SearchFn(v, [k \in 1 .. initSearchAttempts_ |-> ElList_[MaxN]]).evaluated
         = Nodes

\* C18 (result cap): the result set that kSearchElementsWithAttempts has
\* returned to add(), which add() then takes apart entry by entry, holds at
\* most NN entries.
C18_ResultCap ==
  \A p \in Procs :
    th[p].pc \in {"link_loop", "link_second"} =>
      BagSize(th[p].resultSet) <= NN_

\* The node mutexes the next step of thread p asks for: the candidate on top
\* of its heap (line 275), the two ends of a link one after the other. With
\* several nodes at the same distance on top, any of them.
Waits(p) ==
  LET dist == [n \in Nodes |-> IndexTimeDistance(th[p].newElement, n)]
  IN CASE th[p].pc = "ks_loop" -> MinNodes(th[p].candidateSet, dist)
       [] th[p].pc = "link_loop" -> MaxNodes(th[p].resultSet, dist)
       [] th[p].pc = "link_second" -> {th[p].newElement}
       [] OTHER -> {}

\* Thread p may find the mutex it asks for taken.
Blocked(p) == \E n \in Waits(p) : accessGuard_[n] # NoProc

\* C19 (deadlock freedom): no thread holds two mutexes at once; a thread that
\* holds a node mutex is in its neighbor loop, where it asks for no mutex, and
\* can take its next step (unless a heap of the model is full); a thread that
\* asks for a mutex holds none. So whoever waits, waits for a thread that does
\* not wait. (The graph mutex is free between any two steps.)
C19_DeadlockFree ==
  /\ \A p \in Procs : Cardinality(HeldBy(p)) <= 1
  /\ \A p \in Procs :
       HeldBy(p) # {} =>
         /\ th[p].pc = "ks_iter"
         /\ HeldBy(p) = {th[p].currNode}
         /\ Waits(p) = {}
         /\ QueueBoundReached \/ ENABLED KsIter(p)
  /\ \A p \in Procs : Waits(p) # {} => HeldBy(p) = {}
  /\ \A p \in Procs : \A n \in Waits(p) :
       accessGuard_[n] # NoProc => ~Blocked(accessGuard_[n])

\* C19's case: a thread asks for the mutex of a node while another thread,
\* in its neighbor loop, holds it.
C19_Witness ==
  \E p \in Procs : \E q \in Procs \ {p} :
    /\ Blocked(p)
    /\ \E n \in Waits(p) : accessGuard_[n] = q
    /\ th[q].pc = "ks_iter"

\* C20 (the seed is never null): at every restart, of the traversal of an
\* add() that has passed the emptiness check and of a k-NN query on an index
\* the constructor has returned, every entry point getRandomEntryPoint can
\* hand out is a node of the list, not the null pointer.
C20_SeedNeverNull ==
  /\ \A p \in Procs :
       (th[p].pc = "ks_attempt" /\ th[p].attempt < initIndexAttempts_) =>
         getRandomEntryPoint \subseteq Published
  /\ (th[Main].pc = "q_attempt" /\ qry.attempt < initSearchAttempts_) =>
       getRandomEntryPoint \subseteq Published

====
